---- MODULE Spec2Model ----
(***************************************************************************)
(* A model of tracing_json_span_fields (src/src/lib.rs): JsonLayer, the    *)
(* per-span CustomFieldStorage kept in the registry's span extensions,     *)
(* JsonVisitor and the JsonOutput sinks, together with the part of the     *)
(* tracing host (registry, per-thread current span, extension locks) that  *)
(* the layer's callbacks run against.                                      *)
(***************************************************************************)
EXTENDS Integers, Sequences, FiniteSets, TLC

----------------------------------------------------------------------------
(* Bounds of the model *)

\* number of spans the registry hands an id to
MaxSpans == 2
\* number of events the layer is handed
MaxEvents == 2
\* number of spans a thread is inside of at once
MaxDepth == 2
\* the threads of the instrumented program
Threads == {"t1", "t2"}

----------------------------------------------------------------------------
(* Severities: tracing's LevelFilter, ordered OFF < ERROR < ... < TRACE *)

OFF == 0
ERROR == 1
WARN == 2
INFO == 3
DEBUG == 4
TRACE == 5

Levels == {ERROR, WARN, INFO, DEBUG, TRACE}
LevelFilters == {OFF} \cup Levels

\* Level::as_str
as_str(l) ==
    CASE l = ERROR -> "ERROR"
      [] l = WARN -> "WARN"
      [] l = INFO -> "INFO"
      [] l = DEBUG -> "DEBUG"
      [] l = TRACE -> "TRACE"

----------------------------------------------------------------------------
(* JSON values and the map of fields (serde_json::Value, serde_json::Map) *)

JNumber(v) == [t |-> "number", v |-> v]
JBool(v) == [t |-> "bool", v |-> v]
JString(v) == [t |-> "string", v |-> v]
JNull == [t |-> "null", v |-> "null"]

EmptyMap == [k \in {} |-> JString("")]

\* Insert, were the value of an existing key kept
Insert_absent(m, k, v) ==
    [x \in (DOMAIN m) \cup {k} |-> IF x \in DOMAIN m THEN m[x] ELSE v]

\* Map::insert: the value of an existing key is replaced
Insert(m, k, v) == [x \in (DOMAIN m) \cup {k} |-> IF x = k THEN v ELSE m[x]]

\* the reserved keys on_event writes after every other field
ReservedKeys == {"target", "name", "log_level", "timestamp"}

----------------------------------------------------------------------------
(* Typed field values as the host hands them to a visitor *)

\* the text of a value: to_string() of an error (its Display), format!("{:?}")
\* of anything else (its Debug)
Rendered(val) == IF val.kind = "error" THEN val.display ELSE val.debug

\* f64::is_finite
is_finite(val) == val.v \notin {"NaN", "inf", "-inf"}

\* JsonVisitor::record_*: one JSON value per value kind, made with json!;
\* json! of a float that is not finite is null
JsonOf(val) ==
    CASE val.kind = "f64" -> IF is_finite(val) THEN JNumber(val.v) ELSE JNull
      [] val.kind = "i64" -> JNumber(val.v)
      [] val.kind = "u64" -> JNumber(val.v)
      [] val.kind = "bool" -> JBool(val.v)
      [] val.kind = "str" -> JString(val.v)
      [] val.kind = "error" -> JString(Rendered(val))
      [] OTHER -> JString(Rendered(val))

\* Visit, were the entry put into a map of its own
Visit_fresh(m, field) == Insert(EmptyMap, field.name, JsonOf(field.value))

\* one call of the visitor: the entry is inserted under the field's name
Visit(m, field) == Insert(m, field.name, JsonOf(field.value))

\* Attributes::record / Record::record / Event::record: every field of the
\* list is visited, in order
RECURSIVE VisitAll(_, _)
VisitAll(m, fs) ==
    IF fs = <<>> THEN m ELSE VisitAll(Visit(m, Head(fs)), Tail(fs))

\* the values the instrumented program gives its fields
FieldValues == {[kind |-> "i64", v |-> "0"], [kind |-> "str", v |-> "foo"]}

\* the field list of a callsite: the names of K in declaration order, all
\* given the value val
NameOrder == <<"x", "y", "target">>
FieldList(K, val) ==
    LET sel == SelectSeq(NameOrder, LAMBDA n : n \in K)
    IN [i \in 1..Len(sel) |-> [name |-> sel[i], value |-> val]]

\* field lists that give one key either value, or set nothing
FieldLists == {FieldList(K, val) : K \in SUBSET {"x"}, val \in FieldValues}

\* field lists over a user key and a key that collides with a reserved one
KeyLists ==
    {FieldList(K, [kind |-> "i64", v |-> "0"]) : K \in SUBSET {"x", "target"}}

\* the field list of a span that sets x and y to "foo"
FooLists == {FieldList({"x", "y"}, [kind |-> "str", v |-> "foo"])}

\* field lists that set x to 0, or nothing
ZeroLists == {FieldList(K, [kind |-> "i64", v |-> "0"]) : K \in SUBSET {"x"}}

\* field lists that set x and y together, or nothing
PairLists == {FieldList(K, val) : K \in {{}, {"x", "y"}}, val \in FieldValues}

\* the field lists of a span that is opened with x = 0 and y = 0 or without
\* fields, and of a record call that sets x = "foo" only
StoreAttrs == {<<>>, FieldList({"x", "y"}, [kind |-> "i64", v |-> "0"])}
StoreRecords == {FieldList({"x"}, [kind |-> "str", v |-> "foo"])}

\* values of every kind a visitor is handed; one that has no record_* method
\* of its own (i128, or any Debug value) is handed to record_debug
AllValues ==
    {[kind |-> "f64", v |-> "1.5"], [kind |-> "f64", v |-> "NaN"],
     [kind |-> "i64", v |-> "-1"], [kind |-> "u64", v |-> "1"],
     [kind |-> "bool", v |-> "true"], [kind |-> "str", v |-> "foo"],
     [kind |-> "error", display |-> "disk full", debug |-> "Io(disk full)"],
     [kind |-> "i128", debug |-> "1"],
     [kind |-> "debug", debug |-> "Some(\"foo\")"]}

\* field lists that give x a value of any kind
KindLists == {FieldList({"x"}, val) : val \in AllValues}

Names(fs) == {fs[i].name : i \in 1..Len(fs)}

\* the map m after a call that sets the fields fs: a name of fs has the
\* value of its last field in fs, any other key keeps its value
LastWrite(m, fs) ==
    [k \in (DOMAIN m) \cup Names(fs) |->
        IF k \in Names(fs)
        THEN LET last == CHOOSE i \in 1..Len(fs) :
                            /\ fs[i].name = k
                            /\ \A j \in (i + 1)..Len(fs) : fs[j].name # k
             IN JsonOf(fs[last].value)
        ELSE m[k]]

----------------------------------------------------------------------------
(* The layer: JsonLayer { output, timestamp_format, max_level } *)

\* default, were the minimum severity DEBUG
default_debug == [output |-> "JsonStdout", pretty |-> FALSE,
                  timestamp_format |-> "Iso8601", max_level |-> DEBUG]

\* impl Default for JsonLayer
default == [output |-> "JsonStdout", pretty |-> FALSE,
            timestamp_format |-> "Iso8601", max_level |-> INFO]

with_output(l, o) == [l EXCEPT !.output = o, !.pretty = FALSE]

\* JsonLayer::pretty: default().with_output(JsonStdout { pretty: true })
pretty == [with_output(default, "JsonStdout") EXCEPT !.pretty = TRUE]

with_timestamp_format(l, timestamp_format) ==
    [l EXCEPT !.timestamp_format = timestamp_format]

with_level(l, max_level) == [l EXCEPT !.max_level = max_level]

\* the timestamp formats a layer is built with: the default one and the
\* format description of the tests
Formats == {"Iso8601", "format_description"}

\* the sinks a layer is built with: the default one and the tests' TestOutput
Outputs == {"JsonStdout", "TestOutput"}

\* max_level_hint, were the hint that of the default layer
max_level_hint_default(l) == INFO

\* Layer::max_level_hint: Some(self.max_level)
max_level_hint(l) == l.max_level

\* enabled, were only the minimum severity itself accepted
enabled_exact(l, level) == level = l.max_level

\* enabled, were the minimum severity itself turned down
enabled_strict(l, level) == level < l.max_level

\* Layer::enabled
enabled(l, level) == level <= l.max_level

----------------------------------------------------------------------------
(* State *)

VARIABLES
    layer,      \* the JsonLayer installed in the subscriber
    spans,      \* the registry: span id -> parent, extensions, visibility
    lock,       \* the lock of each span's extensions
    stack,      \* per thread: the spans it has entered, innermost last
    pc,         \* per thread: the callback it is in
    cur,        \* per thread: the arguments and locals of that callback
    sink,       \* the values handed to JsonOutput::write, in order
    clock,      \* the number of times OffsetDateTime::now_utc was read
    committed,  \* history: per span, the map as on_new_span and the record
                \* calls that have returned leave it
    rejected    \* per thread: the attributes of the spans it is inside of
                \* that enabled() turned down, innermost last

vars == <<layer, spans, lock, stack, pc, cur, sink, clock, committed, rejected>>

NoThread == "none"
NoSpan == 0

Idle == [level |-> OFF, span |-> NoSpan, chain |-> <<>>, i |-> 0,
         fields |-> EmptyMap, values |-> <<>>]

SpanIds == DOMAIN spans

\* the thread's current span: the innermost span it has entered
Current(t) == IF stack[t] = <<>> THEN NoSpan ELSE stack[t][Len(stack[t])]

\* Scope::from_root: the span and its ancestors, root first
RECURSIVE from_root(_, _)
from_root(sp, s) ==
    IF s = NoSpan THEN <<>> ELSE Append(from_root(sp, sp[s].parent), s)

\* event_scope, were only the current span looked up
event_scope_current(t) == IF Current(t) = NoSpan THEN <<>> ELSE <<Current(t)>>

\* Context::event_scope: the scope of the event's contextual parent
event_scope(t) == from_root(spans, Current(t))

\* may_write, were the extensions handed out without the lock
may_write_unlocked(l) == TRUE

\* extensions_mut() and extensions() wait while a thread holds the
\* extensions for writing; a reader holds them within one step only
may_write(l) == l.writer = NoThread

\* may_read, were the map read without the lock
may_read_unlocked(l) == TRUE

may_read(l) == l.writer = NoThread

InEvent(t) == pc[t] = "on_event"

\* the layer l put in place (reload) when a span that no JsonLayer has seen
\* is open: the span has no storage
Reloaded(l) ==
    /\ layer = l
    /\ spans = <<[parent |-> NoSpan, visible |-> TRUE,
                  hasStorage |-> FALSE, storage |-> EmptyMap]>>
    /\ lock = <<[writer |-> NoThread]>>
    /\ stack = [t \in Threads |-> <<>>]
    /\ pc = [t \in Threads |-> "idle"]
    /\ cur = [t \in Threads |-> Idle]
    /\ sink = <<>>
    /\ clock = 0
    /\ committed = <<EmptyMap>>
    /\ rejected = [t \in Threads |-> <<>>]

\* registry().with(l): no span is open, nothing was written
Installed(l) ==
    /\ layer = l
    /\ spans = <<>>
    /\ lock = <<>>
    /\ stack = [t \in Threads |-> <<>>]
    /\ pc = [t \in Threads |-> "idle"]
    /\ cur = [t \in Threads |-> Idle]
    /\ sink = <<>>
    /\ clock = 0
    /\ committed = <<>>
    /\ rejected = [t \in Threads |-> <<>>]

----------------------------------------------------------------------------
(* Host: spans are opened, entered and left *)

\* NewSpan, were the id handed to the program before on_new_span has run
NewSpan_early(t, level, attrs) ==
    /\ pc[t] = "idle"
    /\ Len(spans) < MaxSpans
    /\ IF enabled(layer, level)
       THEN /\ spans' = Append(spans, [parent |-> Current(t), visible |-> TRUE,
                                      hasStorage |-> FALSE, storage |-> EmptyMap])
            /\ lock' = Append(lock, [writer |-> NoThread])
            /\ committed' = Append(committed, EmptyMap)
            /\ pc' = [pc EXCEPT ![t] = "on_new_span"]
            /\ cur' = [cur EXCEPT ![t] = [Idle EXCEPT !.level = level,
                                                      !.span = Len(spans) + 1,
                                                      !.values = attrs]]
       ELSE /\ pc' = [pc EXCEPT ![t] = "disabled"]
            /\ cur' = [cur EXCEPT ![t] = [Idle EXCEPT !.level = level]]
            /\ UNCHANGED <<spans, lock, committed>>
    /\ UNCHANGED <<layer, rejected, stack, sink, clock>>

\* Span::new: the host asks enabled(); an accepted span gets an id and its
\* data in the registry, and on_new_span is called before the id is returned
NewSpan(t, level, attrs) ==
    /\ pc[t] = "idle"
    /\ Len(spans) < MaxSpans
    /\ IF enabled(layer, level)
       THEN /\ spans' = Append(spans, [parent |-> Current(t), visible |-> FALSE,
                                      hasStorage |-> FALSE, storage |-> EmptyMap])
            /\ lock' = Append(lock, [writer |-> NoThread])
            /\ committed' = Append(committed, EmptyMap)
            /\ pc' = [pc EXCEPT ![t] = "on_new_span"]
            /\ cur' = [cur EXCEPT ![t] = [Idle EXCEPT !.level = level,
                                                      !.span = Len(spans) + 1,
                                                      !.values = attrs]]
       ELSE /\ pc' = [pc EXCEPT ![t] = "disabled"]
            /\ cur' = [cur EXCEPT ![t] = [Idle EXCEPT !.level = level]]
            /\ UNCHANGED <<spans, lock, committed>>
    /\ UNCHANGED <<layer, rejected, stack, sink, clock>>

\* JsonLayer::on_new_span: the attributes are visited into a new map, which
\* is stored in the span's extensions; then the span is handed to the caller
on_new_span(t) ==
    /\ pc[t] = "on_new_span"
    /\ LET id == cur[t].span
           fields == VisitAll(EmptyMap, cur[t].values)
       IN /\ spans' = [spans EXCEPT ![id] = [@ EXCEPT !.hasStorage = TRUE,
                                                       !.storage = fields,
                                                       !.visible = TRUE]]
          /\ committed' = [committed EXCEPT ![id] = LastWrite(EmptyMap, cur[t].values)]
    /\ pc' = [pc EXCEPT ![t] = "idle"]
    /\ cur' = [cur EXCEPT ![t] = Idle]
    /\ UNCHANGED <<layer, rejected, lock, stack, sink, clock>>

\* a span or event that enabled() turned down: the macro does nothing
Disabled(t) ==
    /\ pc[t] = "disabled"
    /\ pc' = [pc EXCEPT ![t] = "idle"]
    /\ cur' = [cur EXCEPT ![t] = Idle]
    /\ UNCHANGED <<layer, rejected, spans, lock, stack, sink, clock, committed>>

\* Span::enter on a child of the thread's current span
Enter(t, s) ==
    /\ pc[t] = "idle"
    /\ s \in SpanIds /\ spans[s].visible
    /\ spans[s].parent = Current(t)
    /\ Len(stack[t]) < MaxDepth
    /\ stack' = [stack EXCEPT ![t] = Append(@, s)]
    /\ UNCHANGED <<layer, rejected, spans, lock, pc, cur, sink, clock, committed>>

\* the guard of the innermost entered span is dropped
Exit(t) ==
    /\ pc[t] = "idle"
    /\ stack[t] # <<>>
    /\ stack' = [stack EXCEPT ![t] = SubSeq(@, 1, Len(@) - 1)]
    /\ UNCHANGED <<layer, rejected, spans, lock, pc, cur, sink, clock, committed>>

\* EnterDisabled, were a span that enabled() turned down put in the
\* registry, without a map, and entered
EnterDisabled_registered(t, level, attrs) ==
    /\ pc[t] = "idle"
    /\ ~enabled(layer, level)
    /\ Len(rejected[t]) < MaxDepth
    /\ Len(spans) < MaxSpans /\ Len(stack[t]) < MaxDepth
    /\ rejected' = [rejected EXCEPT ![t] = Append(@, attrs)]
    /\ spans' = Append(spans, [parent |-> Current(t), visible |-> TRUE,
                               hasStorage |-> FALSE, storage |-> EmptyMap])
    /\ lock' = Append(lock, [writer |-> NoThread])
    /\ committed' = Append(committed, EmptyMap)
    /\ stack' = [stack EXCEPT ![t] = Append(@, Len(spans) + 1)]
    /\ UNCHANGED <<layer, pc, cur, sink, clock>>

\* Span::new and Span::enter for a span that enabled() turns down: the span
\* is disabled, it gets no id and no data in the registry, no callback of
\* the layer is called, and entering it leaves the current span as it is
EnterDisabled(t, level, attrs) ==
    /\ pc[t] = "idle"
    /\ ~enabled(layer, level)
    /\ Len(rejected[t]) < MaxDepth
    /\ rejected' = [rejected EXCEPT ![t] = Append(@, attrs)]
    /\ UNCHANGED <<layer, spans, lock, stack, pc, cur, sink, clock, committed>>

\* the guard of the innermost disabled span is dropped
ExitDisabled(t) ==
    /\ pc[t] = "idle"
    /\ rejected[t] # <<>>
    /\ rejected' = [rejected EXCEPT ![t] = SubSeq(@, 1, Len(@) - 1)]
    /\ UNCHANGED <<layer, spans, lock, stack, pc, cur, sink, clock, committed>>

----------------------------------------------------------------------------
(* JsonLayer::on_record *)

\* on_record, were one lock held for the extensions of all spans
on_record_global(t, s, values) ==
    /\ pc[t] = "idle"
    /\ values # <<>>
    /\ s \in SpanIds => spans[s].visible
    /\ \A x \in SpanIds : may_write(lock[x])
    /\ IF s \in SpanIds /\ spans[s].hasStorage
       THEN /\ lock' = [lock EXCEPT ![s].writer = t]
            /\ pc' = [pc EXCEPT ![t] = "on_record"]
            /\ cur' = [cur EXCEPT ![t] = [Idle EXCEPT !.span = s, !.values = values,
                                                      !.i = 1]]
       ELSE /\ pc' = [pc EXCEPT ![t] = "panicked"]
            /\ UNCHANGED <<lock, cur>>
    /\ UNCHANGED <<layer, rejected, spans, stack, sink, clock, committed>>

\* on_record, were a missing storage created instead of unwrapped
on_record_create(t, s, values) ==
    /\ pc[t] = "idle"
    /\ values # <<>>
    /\ s \in SpanIds => spans[s].visible /\ may_write(lock[s])
    /\ IF s \in SpanIds
       THEN /\ spans' = [spans EXCEPT ![s].hasStorage = TRUE]
            /\ lock' = [lock EXCEPT ![s].writer = t]
            /\ pc' = [pc EXCEPT ![t] = "on_record"]
            /\ cur' = [cur EXCEPT ![t] = [Idle EXCEPT !.span = s, !.values = values,
                                                      !.i = 1]]
       ELSE /\ pc' = [pc EXCEPT ![t] = "panicked"]
            /\ UNCHANGED <<spans, lock, cur>>
    /\ UNCHANGED <<layer, rejected, stack, sink, clock, committed>>

\* Span::record, or Dispatch::record with any id: the span is looked up and
\* unwrapped, its extensions are locked for writing (extensions_mut) and the
\* storage is unwrapped; unwrapping what is not there panics
on_record(t, s, values) ==
    /\ pc[t] = "idle"
    /\ values # <<>>
    /\ s \in SpanIds => spans[s].visible /\ may_write(lock[s])
    /\ IF s \in SpanIds /\ spans[s].hasStorage
       THEN /\ lock' = [lock EXCEPT ![s].writer = t]
            /\ pc' = [pc EXCEPT ![t] = "on_record"]
            /\ cur' = [cur EXCEPT ![t] = [Idle EXCEPT !.span = s, !.values = values,
                                                      !.i = 1]]
       ELSE /\ pc' = [pc EXCEPT ![t] = "panicked"]
            /\ UNCHANGED <<lock, cur>>
    /\ UNCHANGED <<layer, rejected, spans, stack, sink, clock, committed>>

\* on_record_visit, were one map shared by all spans
on_record_visit_shared(t) ==
    /\ pc[t] = "on_record"
    /\ spans' = [s \in DOMAIN spans |->
                    IF spans[s].hasStorage
                    THEN [spans[s] EXCEPT !.storage =
                                              Visit(@, cur[t].values[cur[t].i])]
                    ELSE spans[s]]
    /\ IF cur[t].i < Len(cur[t].values)
       THEN /\ cur' = [cur EXCEPT ![t].i = @ + 1]
            /\ UNCHANGED <<lock, pc, committed>>
       ELSE /\ lock' = [lock EXCEPT ![cur[t].span].writer = NoThread]
            /\ committed' = [committed EXCEPT ![cur[t].span] =
                                                 LastWrite(@, cur[t].values)]
            /\ pc' = [pc EXCEPT ![t] = "idle"]
            /\ cur' = [cur EXCEPT ![t] = Idle]
    /\ UNCHANGED <<layer, rejected, stack, sink, clock>>

\* on_record_visit, were the fields inserted into a clone of the span's map
on_record_visit_clone(t) ==
    /\ pc[t] = "on_record"
    /\ IF cur[t].i < Len(cur[t].values)
       THEN /\ cur' = [cur EXCEPT ![t].i = @ + 1]
            /\ UNCHANGED <<lock, pc, committed>>
       ELSE /\ lock' = [lock EXCEPT ![cur[t].span].writer = NoThread]
            /\ committed' = [committed EXCEPT ![cur[t].span] =
                                                 LastWrite(@, cur[t].values)]
            /\ pc' = [pc EXCEPT ![t] = "idle"]
            /\ cur' = [cur EXCEPT ![t] = Idle]
    /\ UNCHANGED <<layer, rejected, spans, stack, sink, clock>>

\* values.record(&mut visitor): the next field is inserted into the span's
\* map; after the last one on_record returns and the write lock is released
on_record_visit(t) ==
    /\ pc[t] = "on_record"
    /\ spans' = [spans EXCEPT ![cur[t].span].storage =
                                  Visit(@, cur[t].values[cur[t].i])]
    /\ IF cur[t].i < Len(cur[t].values)
       THEN /\ cur' = [cur EXCEPT ![t].i = @ + 1]
            /\ UNCHANGED <<lock, pc, committed>>
       ELSE /\ lock' = [lock EXCEPT ![cur[t].span].writer = NoThread]
            /\ committed' = [committed EXCEPT ![cur[t].span] =
                                                 LastWrite(@, cur[t].values)]
            /\ pc' = [pc EXCEPT ![t] = "idle"]
            /\ cur' = [cur EXCEPT ![t] = Idle]
    /\ UNCHANGED <<layer, rejected, stack, sink, clock>>

----------------------------------------------------------------------------
(* JsonLayer::on_event *)

\* the host asks enabled(); on_event starts with an empty map and the scope
\* of the event
Event(t, level, own) ==
    /\ pc[t] = "idle"
    /\ Len(sink) + Cardinality({u \in Threads : InEvent(u)}) < MaxEvents
    /\ IF enabled(layer, level)
       THEN /\ pc' = [pc EXCEPT ![t] = "on_event"]
            /\ cur' = [cur EXCEPT ![t] = [Idle EXCEPT !.level = level,
                                                      !.chain = event_scope(t),
                                                      !.i = 1,
                                                      !.values = own]]
       ELSE /\ pc' = [pc EXCEPT ![t] = "disabled"]
            /\ cur' = [cur EXCEPT ![t] = [Idle EXCEPT !.level = level]]
    /\ UNCHANGED <<layer, rejected, spans, lock, stack, sink, clock, committed>>

\* merge, were an existing key kept instead of replaced
merge_keep(fields, field_data) ==
    [k \in (DOMAIN fields) \cup (DOMAIN field_data) |->
        IF k \in DOMAIN fields THEN fields[k] ELSE field_data[k]]

\* for (key, value) in field_data { fields.insert(key, value) }
merge(fields, field_data) ==
    [k \in (DOMAIN fields) \cup (DOMAIN field_data) |->
        IF k \in DOMAIN field_data THEN field_data[k] ELSE fields[k]]

\* span.extensions(): the next span of the scope is locked for reading, its
\* storage is unwrapped and copied into the event's map, the lock is released
on_event_span(t) ==
    /\ pc[t] = "on_event"
    /\ cur[t].i <= Len(cur[t].chain)
    /\ LET s == cur[t].chain[cur[t].i]
       IN /\ may_read(lock[s])
          /\ IF spans[s].hasStorage
             THEN /\ cur' = [cur EXCEPT ![t].fields = merge(@, spans[s].storage),
                                        ![t].i = @ + 1]
                  /\ UNCHANGED pc
             ELSE /\ pc' = [pc EXCEPT ![t] = "panicked"]
                  /\ UNCHANGED cur
    /\ UNCHANGED <<layer, rejected, spans, lock, stack, sink, clock, committed>>

\* OffsetDateTime::format
format(time, fmt) == <<fmt, time>>

\* the target and the name of the event's metadata
Target == "app"
Name == "event src/lib.rs"

\* defaults, were a key that is already present left alone
defaults_absent(fields, level, time, fmt) ==
    LET d == [k \in ReservedKeys |->
                 CASE k = "target" -> JString(Target)
                   [] k = "name" -> JString(Name)
                   [] k = "log_level" -> JString(as_str(level))
                   [] OTHER -> JString(format(time, fmt))]
    IN [k \in (DOMAIN fields) \cup ReservedKeys |->
           IF k \in DOMAIN fields THEN fields[k] ELSE d[k]]

\* the default fields, inserted after all others
defaults(fields, level, time, fmt) ==
    LET f1 == Insert(fields, "target", JString(Target))
        f2 == Insert(f1, "name", JString(Name))
        f3 == Insert(f2, "log_level", JString(as_str(level)))
    IN Insert(f3, "timestamp", JString(format(time, fmt)))

\* output, were the event's fields visited before the spans' were merged
output_event_first(fields, own, level, time, fmt) ==
    defaults(merge(VisitAll(EmptyMap, own), fields), level, time, fmt)

\* output, were the event's fields not visited
output_spans_only(fields, own, level, time, fmt) ==
    defaults(fields, level, time, fmt)

\* output, were the default fields inserted before the event's fields
output_defaults_first(fields, own, level, time, fmt) ==
    VisitAll(defaults(fields, level, time, fmt), own)

\* the value on_event builds from the merged span fields
output(fields, own, level, time, fmt) ==
    defaults(VisitAll(fields, own), level, time, fmt)

\* on_event_write, were the event's fields visited into the map of the
\* innermost span of the scope
on_event_write_store(t, io_ok) ==
    /\ pc[t] = "on_event"
    /\ cur[t].i > Len(cur[t].chain)
    /\ sink' = Append(sink, output(cur[t].fields, cur[t].values, cur[t].level,
                                   clock, layer.timestamp_format))
    /\ spans' = IF cur[t].chain = <<>>
                THEN spans
                ELSE [spans EXCEPT ![cur[t].chain[Len(cur[t].chain)]].storage =
                                        VisitAll(@, cur[t].values)]
    /\ clock' = clock + 1
    /\ io_ok \/ layer.output = "JsonStdout"
    /\ pc' = [pc EXCEPT ![t] = IF io_ok THEN "idle" ELSE "panicked"]
    /\ cur' = [cur EXCEPT ![t] = Idle]
    /\ UNCHANGED <<layer, rejected, lock, stack, committed>>

\* on_event_write, were the value put before those already in the output
on_event_write_front(t, io_ok) ==
    /\ pc[t] = "on_event"
    /\ cur[t].i > Len(cur[t].chain)
    /\ sink' = <<output(cur[t].fields, cur[t].values, cur[t].level,
                        clock, layer.timestamp_format)>> \o sink
    /\ clock' = clock + 1
    /\ io_ok \/ layer.output = "JsonStdout"
    /\ pc' = [pc EXCEPT ![t] = IF io_ok THEN "idle" ELSE "panicked"]
    /\ cur' = [cur EXCEPT ![t] = Idle]
    /\ UNCHANGED <<layer, rejected, spans, lock, stack, committed>>

\* the event's fields are visited, the default fields are added and the
\* value is handed to the output; JsonStdout prints it, which panics when
\* the write to stdout fails
on_event_write(t, io_ok) ==
    /\ pc[t] = "on_event"
    /\ cur[t].i > Len(cur[t].chain)
    /\ sink' = Append(sink, output(cur[t].fields, cur[t].values, cur[t].level,
                                   clock, layer.timestamp_format))
    /\ clock' = clock + 1
    /\ io_ok \/ layer.output = "JsonStdout"
    /\ pc' = [pc EXCEPT ![t] = IF io_ok THEN "idle" ELSE "panicked"]
    /\ cur' = [cur EXCEPT ![t] = Idle]
    /\ UNCHANGED <<layer, rejected, spans, lock, stack, committed>>

----------------------------------------------------------------------------
(* Specifications *)

\* the threads TH enter and leave spans, and return from a callsite that
\* enabled() turned down
Host(TH) ==
    \/ \E t \in TH : Disabled(t)
    \/ \E t \in TH, s \in SpanIds : Enter(t, s)
    \/ \E t \in TH : Exit(t)

\* the threads TH enter and leave spans of the severities LV with the field
\* lists FL that enabled() turns down
DisabledSpans(TH, LV, FL) ==
    \/ \E t \in TH, level \in LV, attrs \in FL : EnterDisabled(t, level, attrs)
    \/ \E t \in TH : ExitDisabled(t)

\* the threads TH open spans of the severities LV with the field lists FL
Spans(TH, LV, FL) ==
    \/ \E t \in TH, level \in LV, attrs \in FL : NewSpan(t, level, attrs)
    \/ \E t \in TH : on_new_span(t)

\* the threads TH record the field lists FL on spans
Records(TH, FL) ==
    \/ \E t \in TH, s \in SpanIds, values \in FL : on_record(t, s, values)
    \/ \E t \in TH : on_record_visit(t)

\* the threads TH record the field lists FL with any id, also one that no
\* span of the registry has
RecordsAnyId(TH, FL) ==
    \/ \E t \in TH, s \in 1..MaxSpans, values \in FL : on_record(t, s, values)
    \/ \E t \in TH : on_record_visit(t)

\* the threads TH emit events of the severities LV with the field lists EL
Events(TH, LV, EL) ==
    \/ \E t \in TH, level \in LV, own \in EL : Event(t, level, own)
    \/ \E t \in TH : on_event_span(t)
    \/ \E t \in TH, io_ok \in BOOLEAN : on_event_write(t, io_ok)

Step(TH, LV, FL, EL) ==
    \/ Host(TH)
    \/ Spans(TH, LV, FL)
    \/ Records(TH, FL)
    \/ Events(TH, LV, EL)

\* Spec: the layer of the tests, default().with_output(TestOutput). Thread
\* t1 opens spans that set x and y together and emits events in them;
\* concurrently, thread t2 records x and y together on these spans.
Init == Installed(with_output(default, "TestOutput"))

Next ==
    \/ Host({"t1"})
    \/ Spans({"t1"}, {INFO, DEBUG}, PairLists)
    \/ Events({"t1"}, {INFO, DEBUG}, {<<>>})
    \/ Records({"t2"}, PairLists)

Spec == Init /\ [][Next]_vars

\* SpecFields: the layer of the tests; one thread, callsites that give a
\* field different values
NextFields == Step({"t1"}, {INFO, DEBUG}, FieldLists, FieldLists)

SpecFields == Init /\ [][NextFields]_vars

\* SpecKeys: the layer of the tests; one thread, callsites with different
\* sets of field names
NextKeys == Step({"t1"}, {INFO, DEBUG}, KeyLists, KeyLists)

SpecKeys == Init /\ [][NextKeys]_vars

\* SpecLevels: every output and every minimum severity a layer can be built
\* with; one thread, spans and events of every severity, without fields
InitLevels ==
    \E o \in Outputs, l \in LevelFilters :
        Installed(with_level(with_output(default, o), l))

NextLevels ==
    \/ Host({"t1"})
    \/ Spans({"t1"}, Levels, {<<>>})
    \/ Events({"t1"}, Levels, {<<>>})

SpecLevels == InitLevels /\ [][NextLevels]_vars

\* SpecRecords: the layer of the tests; thread t1 opens spans, and both
\* threads record x and y together on them
NextRecords ==
    \/ Spans({"t1"}, {INFO}, PairLists)
    \/ Records(Threads, PairLists)

SpecRecords == Init /\ [][NextRecords]_vars

\* SpecScopes: the layer of the tests; thread t1 opens spans, both threads
\* enter them, and thread t2 emits events in them
NextScopes ==
    \/ Host(Threads)
    \/ Spans({"t1"}, {INFO}, FieldLists)
    \/ Events({"t2"}, {INFO, DEBUG}, {<<>>})

SpecScopes == Init /\ [][NextScopes]_vars

\* SpecReload: the layer of the tests, put in place when a span is open;
\* both threads open spans with x and y and record x with any id
InitReload == Reloaded(with_output(default, "TestOutput"))

NextReload ==
    \/ Host(Threads)
    \/ Spans(Threads, {INFO, DEBUG}, StoreAttrs)
    \/ RecordsAnyId(Threads, StoreRecords)

SpecReload == InitReload /\ [][NextReload]_vars

\* SpecVisit: the layer of the tests; one thread opens spans and records on
\* them a field of any kind of value
NextVisit ==
    \/ Spans({"t1"}, {INFO}, {<<>>})
    \/ Records({"t1"}, KindLists)

SpecVisit == Init /\ [][NextVisit]_vars

\* SpecBuilders: every layer built from default() or pretty() with any of
\* with_output and with_timestamp_format, and without with_level; one
\* thread, spans and events of every severity, without fields
Builds ==
    LET bases == {default, pretty}
        outputs == bases \cup {with_output(l, o) : l \in bases, o \in Outputs}
    IN outputs \cup {with_timestamp_format(l, f) : l \in outputs, f \in Formats}

InitBuilders == \E l \in Builds : Installed(l)

SpecBuilders == InitBuilders /\ [][NextLevels]_vars

\* SpecHints: every layer built from default() or pretty() with any of
\* with_output, with_timestamp_format and with_level, in either order of
\* with_level and with_output; one thread, spans and events of every
\* severity, without fields
AllBuilds ==
    LET levels == {with_level(l, m) : l \in Builds, m \in LevelFilters}
    IN Builds \cup levels
              \cup {with_output(l, o) : l \in levels, o \in Outputs}

InitHints == \E l \in AllBuilds : Installed(l)

SpecHints == InitHints /\ [][NextLevels]_vars

\* SpecRejected: the layer of the tests; one thread opens INFO spans with
\* x = 0 or without fields, enters DEBUG and TRACE spans with x = y = "foo",
\* which are turned down, and emits events without fields of their own
NextRejected ==
    \/ Host({"t1"})
    \/ Spans({"t1"}, {INFO}, ZeroLists)
    \/ DisabledSpans({"t1"}, {DEBUG, TRACE}, FooLists)
    \/ Events({"t1"}, {INFO, DEBUG}, {<<>>})

SpecRejected == Init /\ [][NextRejected]_vars

\* SpecStores: the layer of the tests; one thread opens spans with x and y
\* or without fields, records x with another value, and emits events without
\* fields of their own
NextStores ==
    \/ Host({"t1"})
    \/ Spans({"t1"}, {INFO}, StoreAttrs)
    \/ Records({"t1"}, StoreRecords)
    \/ Events({"t1"}, {INFO, DEBUG}, {<<>>})

SpecStores == Init /\ [][NextStores]_vars

----------------------------------------------------------------------------
(* Properties *)

\* thread t's on_event hands its value to the output in this step
Writes(t) ==
    /\ pc[t] = "on_event"
    /\ pc'[t] # "on_event"
    /\ Len(sink') = Len(sink) + 1

\* the value handed to the output in this step
Written == sink'[Len(sink')]

\* the span s and its ancestors, by the registry's parent links
RECURSIVE Scope(_)
Scope(s) == IF s = NoSpan THEN {} ELSE {s} \cup Scope(spans[s].parent)

\* the number of spans from the root down to s
RECURSIVE Depth(_)
Depth(s) == IF s = NoSpan THEN 0 ELSE 1 + Depth(spans[s].parent)

\* the spans of t's scope whose map has the key k
Holders(t, k) == {s \in Scope(Current(t)) : k \in DOMAIN spans[s].storage}

\* the keys of the maps of the spans of t's scope
ScopeKeys(t) == UNION {DOMAIN spans[s].storage : s \in Scope(Current(t))}

\* the JSON value the field list fs gives the name k
OwnValue(fs, k) ==
    JsonOf(fs[CHOOSE i \in 1..Len(fs) : fs[i].name = k].value)

LastValue == sink[Len(sink)]

\* C1: in the value written for an event, a key that only spans hold has the
\* value of the innermost span of the event's scope that holds it.
C1_DescendantWins ==
    [][\A t \in Threads : Writes(t) =>
          \A k \in ScopeKeys(t) \ (Names(cur[t].values) \cup ReservedKeys) :
              \E s \in Holders(t, k) :
                  /\ \A h \in Holders(t, k) : Depth(h) <= Depth(s)
                  /\ k \in DOMAIN Written
                  /\ Written[k] = spans[s].storage[k]]_vars

\* an event inside a child span shows the child's x, which differs from the
\* x of the parent
C1_Witness ==
    /\ Len(sink) = 1 /\ Len(spans) = 2
    /\ pc["t1"] = "idle" /\ Current("t1") = 2
    /\ spans[2].parent = 1
    /\ "x" \in DOMAIN spans[1].storage /\ "x" \in DOMAIN spans[2].storage
    /\ spans[1].storage["x"] # spans[2].storage["x"]
    /\ "x" \in DOMAIN LastValue
    /\ LastValue["x"] = spans[2].storage["x"]

\* C2: the keys of the value written for an event are exactly the keys of
\* the maps of the spans of its scope, the event's own field names and the
\* four reserved keys.
C2_KeysAreUnion ==
    [][\A t \in Threads : Writes(t) =>
          DOMAIN Written =
              ScopeKeys(t) \cup Names(cur[t].values) \cup ReservedKeys]_vars

\* the value written inside a child span has the key x that only the parent
\* span holds
C2_Witness ==
    /\ Len(sink) = 1 /\ Len(spans) = 2
    /\ pc["t1"] = "idle" /\ Current("t1") = 2
    /\ spans[2].parent = 1
    /\ "x" \in DOMAIN spans[1].storage /\ "x" \notin DOMAIN spans[2].storage
    /\ DOMAIN LastValue = {"x"} \cup ReservedKeys

\* C3: in the value written for an event, a key the event sets itself and
\* that is not reserved has the event's value, whatever the spans hold.
C3_EventFieldWins ==
    [][\A t \in Threads : Writes(t) =>
          \A k \in Names(cur[t].values) \ ReservedKeys :
              /\ k \in DOMAIN Written
              /\ Written[k] = OwnValue(cur[t].values, k)]_vars

\* the value written has an x that is neither the parent's nor the child's
C3_Witness ==
    /\ Len(sink) = 1 /\ Len(spans) = 2
    /\ pc["t1"] = "idle" /\ Current("t1") = 2
    /\ spans[2].parent = 1
    /\ "x" \in DOMAIN spans[1].storage /\ "x" \in DOMAIN spans[2].storage
    /\ "x" \in DOMAIN LastValue
    /\ LastValue["x"] # spans[1].storage["x"]
    /\ LastValue["x"] # spans[2].storage["x"]

\* C4: in the value written for an event, target, name, log_level and
\* timestamp are those of the event's metadata and of the time of writing,
\* also when a span or the event has a field of that name.
C4_ReservedKeysWin ==
    [][\A t \in Threads : Writes(t) =>
          /\ ReservedKeys \subseteq DOMAIN Written
          /\ Written["target"] = JString(Target)
          /\ Written["name"] = JString(Name)
          /\ Written["log_level"] = JString(as_str(cur[t].level))
          /\ Written["timestamp"] =
                 JString(format(clock, layer.timestamp_format))]_vars

\* the current span has a field named target, and the value written has
\* the target of the metadata
C4_Witness ==
    /\ Len(sink) = 1 /\ Len(spans) >= 1
    /\ pc["t1"] = "idle" /\ Current("t1") = 1
    /\ "target" \in DOMAIN spans[1].storage
    /\ spans[1].storage["target"] # JString(Target)
    /\ LastValue["target"] = JString(Target)

\* C5: between record calls the map of a span is what its construction and
\* the record calls that returned make of it, each key with the value of the
\* last call that set it; an event in the span shows these values.
C5_LastRecordWins ==
    /\ [](\A s \in SpanIds :
            spans[s].visible /\ lock[s].writer = NoThread
                => spans[s].storage = committed[s])
    /\ [][\A t \in Threads : Writes(t) /\ Current(t) # NoSpan =>
            \A k \in DOMAIN committed[Current(t)]
                        \ (Names(cur[t].values) \cup ReservedKeys) :
                /\ k \in DOMAIN Written
                /\ Written[k] = committed[Current(t)][k]]_vars

\* a first event in the only span showed x = 0; a second event without
\* fields of its own has merged x = "foo", the value a record call left
C5_Witness ==
    /\ Len(spans) = 1 /\ Len(sink) = 1
    /\ Current("t1") = 1
    /\ pc["t1"] = "on_event" /\ cur["t1"].values = <<>>
    /\ cur["t1"].i > Len(cur["t1"].chain)
    /\ "x" \in DOMAIN sink[1] /\ sink[1]["x"] = JNumber("0")
    /\ "x" \in DOMAIN cur["t1"].fields
    /\ cur["t1"].fields["x"] = JString("foo")
    /\ committed[1]["x"] = JString("foo")

\* C6: a span or event is accepted exactly when its severity is at or above
\* the minimum (none with OFF, all with TRACE); for one that is turned down
\* no map is stored, nothing is merged and nothing is written.
C6_LevelGate ==
    /\ [](/\ \A t \in Threads :
               /\ pc[t] \in {"on_new_span", "on_event"}
                      => cur[t].level <= layer.max_level
               /\ pc[t] = "disabled" => cur[t].level > layer.max_level
          /\ \A i \in 1..Len(sink) :
               \E l \in Levels : /\ l <= layer.max_level
                                 /\ sink[i]["log_level"] = JString(as_str(l))
          /\ layer.max_level = OFF =>
               /\ spans = <<>> /\ sink = <<>>
               /\ \A t \in Threads : pc[t] \in {"idle", "disabled"}
          /\ layer.max_level = TRACE =>
               \A t \in Threads : pc[t] # "disabled")
    /\ [][\A t \in Threads :
            pc[t] = "disabled" \/ pc'[t] = "disabled" =>
                /\ UNCHANGED <<spans, lock, committed, sink, clock>>
                /\ cur'[t].fields = EmptyMap]_vars

\* with the minimum INFO an INFO span and an INFO event were accepted, and a
\* DEBUG callsite is turned down
C6_Witness ==
    /\ layer.max_level = INFO
    /\ Len(spans) = 1 /\ Len(sink) = 1
    /\ sink[1]["log_level"] = JString("INFO")
    /\ pc["t1"] = "disabled" /\ cur["t1"].level = DEBUG

\* C7: an accepted event outside of any span merges nothing, can be written,
\* and its callback returns after writing one value whose keys are the
\* event's field names and the four reserved keys.
C7_EventWithoutSpan ==
    /\ [](\A t \in Threads : pc[t] = "on_event" /\ Current(t) = NoSpan =>
            /\ cur[t].chain = <<>>
            /\ cur[t].fields = EmptyMap
            /\ ENABLED on_event_write(t, TRUE))
    /\ [][\A t \in Threads :
            pc[t] = "on_event" /\ Current(t) = NoSpan /\ pc'[t] # pc[t] =>
                /\ pc'[t] = "idle"
                /\ Len(sink') = Len(sink) + 1
                /\ DOMAIN Written =
                       Names(cur[t].values) \cup ReservedKeys]_vars

\* no span was ever opened, and the value written has the event's x and the
\* reserved keys only
C7_Witness ==
    /\ spans = <<>>
    /\ Len(sink) = 1
    /\ pc["t1"] = "idle"
    /\ DOMAIN LastValue = {"x"} \cup ReservedKeys
    /\ LastValue["x"] = JNumber("0")

\* x and y are both absent from the map m, or both present and equal
Paired(m) ==
    /\ "x" \in DOMAIN m <=> "y" \in DOMAIN m
    /\ "x" \in DOMAIN m => m["x"] = m["y"]

\* C8: when every record call sets x and y together, the map an event has
\* merged and every value written have x and y together: no event sees a
\* map of which a record call has set only one of the two.
C8_NoHalfWrittenRead ==
    /\ \A t \in Threads : pc[t] = "on_event" => Paired(cur[t].fields)
    /\ \A i \in 1..Len(sink) : Paired(sink[i])

\* t1's event is about to read a span on which t2 has set x and not yet y
C8_Witness ==
    /\ pc["t1"] = "on_event"
    /\ cur["t1"].i <= Len(cur["t1"].chain)
    /\ pc["t2"] = "on_record"
    /\ cur["t2"].span = cur["t1"].chain[cur["t1"].i]
    /\ cur["t2"].i = 2
    /\ ~Paired(spans[cur["t2"].span].storage)

\* C9: when an event reads the map of a span, it gets for every key the
\* value left by the record calls on that span that have returned.
C9_ReturnedRecordsVisible ==
    [][\A t \in Threads :
          pc[t] = "on_event" /\ pc'[t] = "on_event"
                             /\ cur'[t].i = cur[t].i + 1 =>
              LET s == cur[t].chain[cur[t].i]
              IN \A k \in DOMAIN committed[s] :
                     /\ k \in DOMAIN cur'[t].fields
                     /\ cur'[t].fields[k] = committed[s][k]]_vars

\* t1's event has read the only span, on which a record call had returned;
\* t2 is now setting another value, which the event does not show
C9_Witness ==
    /\ Len(spans) = 1
    /\ pc["t1"] = "on_event" /\ cur["t1"].chain = <<1>> /\ cur["t1"].i = 2
    /\ "x" \in DOMAIN committed[1]
    /\ cur["t1"].fields = committed[1]
    /\ pc["t2"] = "on_record" /\ cur["t2"].span = 1
    /\ spans[1].storage["x"] # cur["t1"].fields["x"]

\* C10: a failing write of the output does not panic the thread that emitted
\* the event.
C10_WriteFailureTolerated == \A t \in Threads : pc[t] # "panicked"

\* C11: two record calls never write the map of one span at the same time,
\* and when a record call returns the map is what the call makes of the map
\* the calls that returned before it had left: the calls on a span take
\* effect one after the other, in the order in which they return.
C11_RecordsDoNotInterleave ==
    /\ [](\A t, u \in Threads :
            t # u /\ pc[t] = "on_record" /\ pc[u] = "on_record"
                => cur[t].span # cur[u].span)
    /\ [][\A t \in Threads :
            pc[t] = "on_record" /\ pc'[t] = "idle" =>
                spans'[cur[t].span].storage =
                    LastWrite(committed[cur[t].span], cur[t].values)]_vars

\* t2's call has left x = y = "foo" on span 1; t1's call has set x = 0 and
\* not yet y, and meanwhile a call of t2 on this span cannot start writing
C11_Witness ==
    /\ Len(spans) >= 1
    /\ pc["t1"] = "on_record" /\ cur["t1"].span = 1 /\ cur["t1"].i = 2
    /\ committed[1] = [k \in {"x", "y"} |-> JString("foo")]
    /\ spans[1].storage["x"] = JNumber("0")
    /\ spans[1].storage["y"] = JString("foo")
    /\ pc["t2"] = "idle"
    /\ \A values \in PairLists : ~ENABLED on_record("t2", 1, values)
    /\ Len(spans) >= 2 => \E values \in PairLists : ENABLED on_record("t2", 2, values)

\* the spans a thread can reach: those it has entered, those of the scope of
\* an event it is writing, and the parents of all of these
Observable ==
    UNION {Scope(Current(t)) : t \in Threads}
        \cup UNION {UNION {Scope(cur[t].chain[i]) : i \in 1..Len(cur[t].chain)} :
                       t \in Threads}

\* C12: a span gets its map, with every field of its construction, in the
\* step in which it becomes visible to the program; every span an event can
\* reach has its map, so that on_event finds a map for every span of its
\* scope.
C12_StoreBeforeObservable ==
    /\ [](/\ \A s \in SpanIds : spans[s].visible => spans[s].hasStorage
          /\ \A s \in Observable : spans[s].visible /\ spans[s].hasStorage
          /\ \A t \in Threads :
                pc[t] = "on_event" =>
                    \A i \in 1..Len(cur[t].chain) :
                        spans[cur[t].chain[i]].hasStorage)
    /\ [][\A t \in Threads :
            pc[t] = "on_new_span" /\ pc'[t] # "on_new_span" =>
                /\ ~spans[cur[t].span].visible
                /\ spans'[cur[t].span].visible
                /\ spans'[cur[t].span].hasStorage
                /\ spans'[cur[t].span].storage =
                       LastWrite(EmptyMap, cur[t].values)]_vars
    /\ [][\A t \in Threads :
            pc[t] = "on_event" => pc'[t] \in {"on_event", "idle"}]_vars

\* t1 is in on_new_span for a child of span 1, which has no map yet, while
\* t2's event inside span 1 has merged the x of span 1
C12_Witness ==
    /\ Len(spans) = 2
    /\ pc["t1"] = "on_new_span" /\ cur["t1"].span = 2
    /\ cur["t1"].values # <<>>
    /\ spans[2].parent = 1 /\ ~spans[2].hasStorage
    /\ pc["t2"] = "on_event" /\ cur["t2"].chain = <<1>> /\ cur["t2"].i = 2
    /\ "x" \in DOMAIN cur["t2"].fields

\* the kinds of JSON value a field can have
JsonKinds == {"number", "bool", "string"}

\* C13: every value in the output is an object, a map from key names to
\* JSON values, that has target, name, log_level and timestamp, each of them
\* a string.
C13_RecordIsObject ==
    \A i \in 1..Len(sink) :
        /\ ReservedKeys \subseteq DOMAIN sink[i]
        /\ DOMAIN sink[i] \subseteq ReservedKeys \cup {"x", "y"}
        /\ \A k \in DOMAIN sink[i] : sink[i][k].t \in JsonKinds
        /\ \A k \in ReservedKeys : sink[i][k].t = "string"

\* two values were written inside a span that has a number as its target
\* field; in both, target is a string
C13_Witness ==
    /\ Len(sink) = 2 /\ Len(spans) >= 1
    /\ pc["t1"] = "idle" /\ Current("t1") = 1
    /\ "target" \in DOMAIN spans[1].storage
    /\ spans[1].storage["target"].t = "number"
    /\ \A i \in 1..2 : sink[i]["target"].t = "string"

\* C14: a span or event that the layer accepts is accepted by the layer
\* with any less severe minimum, and one that it turns down is turned down
\* with any more severe minimum; so the events written with a minimum m1 are
\* among those written, for the same callsites, with a less severe m2.
C14_FilteringMonotonic ==
    /\ [][\A t \in Threads :
            pc[t] = "idle" /\ pc'[t] # "idle" =>
                /\ pc'[t] \in {"on_new_span", "on_event"} =>
                       \A m2 \in LevelFilters :
                           layer.max_level <= m2 =>
                               enabled(with_level(layer, m2), cur'[t].level)
                /\ pc'[t] = "disabled" =>
                       \A m1 \in LevelFilters :
                           m1 <= layer.max_level =>
                               ~enabled(with_level(layer, m1), cur'[t].level)]_vars
    /\ [](\A i \in 1..Len(sink) :
            \E l \in Levels :
                /\ sink[i]["log_level"] = JString(as_str(l))
                /\ \A m2 \in LevelFilters :
                       layer.max_level <= m2 => enabled(with_level(layer, m2), l))

\* with the minimum WARN an ERROR event was written and an INFO callsite is
\* turned down, which the minimum INFO accepts
C14_Witness ==
    /\ layer.max_level = WARN
    /\ Len(sink) = 1
    /\ sink[1]["log_level"] = JString("ERROR")
    /\ pc["t1"] = "disabled" /\ cur["t1"].level = INFO
    /\ enabled(with_level(layer, INFO), INFO)
    /\ enabled(with_level(layer, INFO), ERROR)

\* C15: no step removes a span or a key of a span's map; the value of a key
\* changes only when a record call on that span visits a field of that name,
\* and then to the value of that field; when a record call returns, every
\* key it did not name has the value it had before the call.
C15_KeysOnlyGrow ==
    /\ [][\A s \in SpanIds :
            /\ s \in DOMAIN spans'
            /\ DOMAIN spans[s].storage \subseteq DOMAIN spans'[s].storage
            /\ \A k \in DOMAIN spans[s].storage :
                  spans'[s].storage[k] # spans[s].storage[k] =>
                      \E t \in Threads :
                          /\ pc[t] = "on_record" /\ cur[t].span = s
                          /\ cur[t].values[cur[t].i].name = k
                          /\ spans'[s].storage[k] =
                                 JsonOf(cur[t].values[cur[t].i].value)]_vars
    /\ [][\A t \in Threads :
            pc[t] = "on_record" /\ pc'[t] = "idle" =>
                \A k \in DOMAIN committed[cur[t].span] \ Names(cur[t].values) :
                    /\ k \in DOMAIN spans'[cur[t].span].storage
                    /\ spans'[cur[t].span].storage[k] =
                           committed[cur[t].span][k]]_vars

\* an event in the only span showed x = 0 and y = 0; after a record call that
\* named x only, the span has x = "foo" and still y = 0
C15_Witness ==
    /\ Len(spans) = 1 /\ Len(sink) = 1
    /\ pc["t1"] = "idle"
    /\ {"x", "y"} \subseteq DOMAIN sink[1]
    /\ sink[1]["x"] = JNumber("0") /\ sink[1]["y"] = JNumber("0")
    /\ spans[1].storage["x"] = JString("foo")
    /\ spans[1].storage["y"] = JNumber("0")

\* the spans of the registry that have no map
Storeless == {s \in SpanIds : spans[s].visible /\ ~spans[s].hasStorage}

\* C16: a record call for a span that has no map, or for an id that no span
\* has, can be made and can only panic; the panic changes no span and no
\* map, a span without a map never gets one, and no record call ever writes
\* for such a span.
C16_RecordOnMissingStore ==
    /\ [](\A t \in Threads :
            /\ pc[t] = "on_record" =>
                  /\ cur[t].span \in SpanIds
                  /\ spans[cur[t].span].hasStorage
            /\ pc[t] = "idle" =>
                  \A s \in (1..MaxSpans) \ {x \in SpanIds : spans[x].hasStorage
                                                             \/ ~spans[x].visible} :
                      \A values \in StoreRecords :
                          /\ ENABLED on_record(t, s, values)
                          /\ ~ENABLED (on_record(t, s, values)
                                            /\ pc'[t] # "panicked"))
    /\ [][/\ \A s \in Storeless : spans'[s] = spans[s]
          /\ \A t \in Threads :
                pc[t] # "panicked" /\ pc'[t] = "panicked" =>
                    UNCHANGED <<spans, lock, committed, sink>>]_vars

\* t1 has panicked in a record call; span 1 still has no map, and span 2,
\* opened with x and y, has its map as it was opened
C16_Witness ==
    /\ pc["t1"] = "panicked" /\ pc["t2"] = "idle"
    /\ Len(spans) = 2
    /\ ~spans[1].hasStorage /\ spans[1].storage = EmptyMap
    /\ spans[2].hasStorage
    /\ spans[2].storage = [k \in {"x", "y"} |-> JNumber("0")]

\* the JSON kind the value kinds are to be converted to
KindOf(val) ==
    CASE val.kind \in {"f64", "i64", "u64"} -> "number"
      [] val.kind = "bool" -> "bool"
      [] OTHER -> "string"

\* the payload of the JSON value: the display text of an error, the debug
\* rendering of a value of another kind, else the value
TextOf(val) ==
    CASE val.kind \in {"f64", "i64", "u64", "bool", "str"} -> val.v
      [] val.kind = "error" -> val.display
      [] OTHER -> val.debug

\* C17: every field a record call visits adds or replaces exactly the entry
\* of its name in the span's map, and the entry has the JSON kind of the
\* value's kind: number for f64, i64 and u64, boolean for bool, string for
\* str, the string of the display text for an error and the string of the
\* debug rendering for any other value.
C17_ConversionTotal ==
    [][\A t \in Threads :
          pc[t] = "on_record" =>
              LET s == cur[t].span
                  field == cur[t].values[cur[t].i]
              IN /\ DOMAIN spans'[s].storage =
                        DOMAIN spans[s].storage \cup {field.name}
                 /\ spans'[s].storage[field.name] =
                        [t |-> KindOf(field.value), v |-> TextOf(field.value)]
                 /\ \A k \in DOMAIN spans[s].storage \ {field.name} :
                        spans'[s].storage[k] = spans[s].storage[k]]_vars

\* the spans on which no record call is running
Unwritten == {b \in SpanIds : /\ spans[b].visible
                              /\ \A u \in Threads :
                                    ~(pc[u] = "on_record" /\ cur[u].span = b)}

\* C18: a thread can start a record call on any span on which no record
\* call is running, whatever the other threads are doing: while an event is
\* merging the maps of its scope, and while a record call writes the map of
\* another span.
C18_PerSpanLock ==
    \A t \in Threads :
        pc[t] = "idle" =>
            \A b \in Unwritten :
                \A values \in PairLists \ {<<>>} :
                    ENABLED (on_record(t, b, values) /\ pc'[t] = "on_record")

\* t1's event inside span 1 is about to read the map of span 1 while t2 is
\* in a record call on span 2, which has set x and not yet y
C18_Witness ==
    /\ Len(spans) = 2
    /\ pc["t1"] = "on_event"
    /\ cur["t1"].chain = <<1>> /\ cur["t1"].i = 1
    /\ pc["t2"] = "on_record" /\ cur["t2"].span = 2 /\ cur["t2"].i = 2
    /\ lock[1].writer = NoThread /\ lock[2].writer = "t2"

\* C19: a layer built without with_level has the minimum severity INFO,
\* whatever its output and timestamp format: the ERROR, WARN and INFO spans
\* and events are accepted, the DEBUG and TRACE ones are turned down, and
\* only ERROR, WARN and INFO events are written.
C19_DefaultLevelInfo ==
    /\ layer.max_level = INFO
    /\ \A t \in Threads :
          /\ pc[t] \in {"on_new_span", "on_event"} =>
                cur[t].level \in {ERROR, WARN, INFO}
          /\ pc[t] = "disabled" => cur[t].level \in {DEBUG, TRACE}
    /\ \A l \in Levels :
          enabled(layer, l) <=> l \in {ERROR, WARN, INFO}
    /\ \A i \in 1..Len(sink) :
          sink[i]["log_level"] \in
              {JString("ERROR"), JString("WARN"), JString("INFO")}

\* the layer was built with pretty() and the format description of the
\* tests; a WARN event was written and a DEBUG event is turned down
C19_Witness ==
    /\ layer.pretty /\ layer.timestamp_format = "format_description"
    /\ Len(sink) = 1
    /\ sink[1]["log_level"] = JString("WARN")
    /\ pc["t1"] = "disabled" /\ cur["t1"].level = DEBUG

\* C20: with one thread, a step changes the output only when an accepted
\* event's callback returns, and then it appends one value, that of this
\* event: its severity, its own fields and the time of its writing, which
\* is the number of values written before it; opening a span, recording and
\* a callsite that is turned down write nothing.
C20_SinkFollowsEvents ==
    /\ [](Len(sink) = clock)
    /\ [][IF \E t \in Threads : pc[t] = "on_event" /\ pc'[t] # "on_event"
          THEN \E t \in Threads :
                   /\ pc[t] = "on_event" /\ pc'[t] = "idle"
                   /\ Len(sink') = Len(sink) + 1
                   /\ sink' = Append(sink, Written)
                   /\ Written["log_level"] = JString(as_str(cur[t].level))
                   /\ Written["timestamp"] =
                          JString(format(Len(sink), layer.timestamp_format))
                   /\ \A k \in Names(cur[t].values) \ ReservedKeys :
                          Written[k] = OwnValue(cur[t].values, k)
          ELSE sink' = sink]_vars

\* after a span was opened and a record call returned, two events have been
\* written: the first with x = 0 at time 0, the second with x = "foo" at
\* time 1
C20_Witness ==
    /\ Len(spans) = 1 /\ pc["t1"] = "idle"
    /\ "x" \in DOMAIN committed[1] /\ committed[1]["x"] = JString("foo")
    /\ Len(sink) = 2
    /\ "x" \in DOMAIN sink[1] /\ sink[1]["x"] = JNumber("0")
    /\ "x" \in DOMAIN sink[2] /\ sink[2]["x"] = JString("foo")
    /\ sink[1]["timestamp"] = JString(format(0, layer.timestamp_format))
    /\ sink[2]["timestamp"] = JString(format(1, layer.timestamp_format))

\* thread t takes this step
Steps(t) == pc'[t] # pc[t] \/ cur'[t] # cur[t]

\* C21: a step of a record call on a span, and of on_new_span for a span,
\* leaves every other span of the registry as it is: its map, whether it is
\* an ancestor, a descendant, a sibling or a span another thread is in; and
\* opening a span changes no span that exists.
C21_RecordFrame ==
    [][\A t \in Threads :
          /\ Steps(t) /\ pc[t] \in {"on_record", "on_new_span"} =>
                \A s \in SpanIds \ {cur[t].span} : spans'[s] = spans[s]
          /\ Steps(t) /\ pc[t] = "idle" =>
                \A s \in SpanIds : spans'[s] = spans[s]]_vars

\* t2's record call on span 2, a child of span 1 that t1 is inside of, has
\* set x = "foo"; span 1 has x = y = 0 as before
C21_Witness ==
    /\ Len(spans) = 2 /\ spans[2].parent = 1
    /\ 1 \in Scope(Current("t1"))
    /\ pc["t2"] = "on_record" /\ cur["t2"].span = 2 /\ cur["t2"].i = 2
    /\ committed[2] = [k \in {"x", "y"} |-> JNumber("0")]
    /\ spans[2].storage["x"] = JString("foo")
    /\ spans[1].storage = [k \in {"x", "y"} |-> JNumber("0")]
    /\ committed[1] = spans[1].storage

\* C22: no step of on_event changes a span, a map, a lock or the layer, and
\* on_event starts from an empty map; so a key of the value written that the
\* event does not set itself and that is not reserved is a key of a map of
\* the event's scope, never one that only an earlier event had.
C22_EventFrame ==
    [][\A t \in Threads :
          /\ Steps(t) /\ (pc[t] = "on_event" \/ pc'[t] = "on_event") =>
                UNCHANGED <<layer, spans, lock, committed, stack>>
          /\ pc[t] = "idle" /\ pc'[t] = "on_event" =>
                cur'[t].fields = EmptyMap
          /\ Writes(t) =>
                \A k \in DOMAIN Written \ (Names(cur[t].values) \cup ReservedKeys) :
                    \E s \in Scope(Current(t)) :
                        /\ k \in DOMAIN spans'[s].storage
                        /\ Written[k] = spans'[s].storage[k]]_vars

\* two events were written inside the only span, which has no field: the
\* first set x itself, the second has no x
C22_Witness ==
    /\ Len(spans) = 1 /\ Current("t1") = 1 /\ pc["t1"] = "idle"
    /\ spans[1].storage = EmptyMap /\ committed[1] = EmptyMap
    /\ Len(sink) = 2
    /\ "x" \in DOMAIN sink[1]
    /\ DOMAIN sink[2] = ReservedKeys

\* C23: the hint of the layer is its minimum severity: enabled accepts a
\* severity exactly when it is within the hint, every span and event that
\* is accepted or written is within the hint, and every one that is turned
\* down is outside of it.
C23_HintIsThreshold ==
    /\ \A level \in Levels :
          enabled(layer, level) <=> level <= max_level_hint(layer)
    /\ \A t \in Threads :
          /\ pc[t] \in {"on_new_span", "on_event"} =>
                cur[t].level <= max_level_hint(layer)
          /\ pc[t] = "disabled" => cur[t].level > max_level_hint(layer)
    /\ \A i \in 1..Len(sink) :
          \E level \in Levels : /\ level <= max_level_hint(layer)
                                 /\ sink[i]["log_level"] = JString(as_str(level))

\* the layer was built with pretty() and with_level(DEBUG): its hint is
\* DEBUG, a DEBUG event was written and a TRACE event is turned down
C23_Witness ==
    /\ layer.pretty /\ max_level_hint(layer) = DEBUG
    /\ Len(sink) = 1
    /\ sink[1]["log_level"] = JString("DEBUG")
    /\ pc["t1"] = "disabled" /\ cur["t1"].level = TRACE

\* the names of the fields of the disabled spans thread t is inside of
RejectedNames(t) == UNION {Names(rejected[t][i]) : i \in 1..Len(rejected[t])}

\* C24: an accepted event of a thread that is inside a span that was turned
\* down finds a map for every span of its scope and returns after writing
\* exactly one value; the keys of the value are those of the maps of the
\* accepted spans of the scope and the reserved keys, each key of a span with
\* the value of the innermost accepted span that holds it, and no key or
\* value is one that only the span that was turned down has.
C24_EventInRejectedSpan ==
    /\ [](\A t \in Threads :
            pc[t] = "on_event" /\ rejected[t] # <<>> =>
                /\ cur[t].chain = from_root(spans, Current(t))
                /\ \A i \in 1..Len(cur[t].chain) :
                      spans[cur[t].chain[i]].hasStorage)
    /\ [][\A t \in Threads :
            pc[t] = "on_event" /\ rejected[t] # <<>> /\ Steps(t) =>
                /\ pc'[t] \in {"on_event", "idle"}
                /\ pc'[t] = "idle" =>
                      /\ Len(sink') = Len(sink) + 1
                      /\ sink' = Append(sink, Written)
                      /\ DOMAIN Written =
                             ScopeKeys(t) \cup Names(cur[t].values)
                                         \cup ReservedKeys
                      /\ \A k \in RejectedNames(t) \ ScopeKeys(t) :
                             k \notin DOMAIN Written
                      /\ \A k \in ScopeKeys(t) \ (Names(cur[t].values)
                                                       \cup ReservedKeys) :
                             \E s \in Holders(t, k) :
                                 /\ \A h \in Holders(t, k) :
                                        Depth(h) <= Depth(s)
                                 /\ Written[k] = spans[s].storage[k]]_vars

\* inside an INFO span with x = 0, the thread has entered a DEBUG span with
\* x = y = "foo" that was turned down; an event emitted there has merged the
\* map of the INFO span, x = 0 and no y, and is about to be written
C24_Witness ==
    /\ layer.max_level = INFO
    /\ Len(spans) = 1 /\ Current("t1") = 1
    /\ spans[1].storage = [k \in {"x"} |-> JNumber("0")]
    /\ rejected["t1"] = <<FieldList({"x", "y"}, [kind |-> "str", v |-> "foo"])>>
    /\ pc["t1"] = "on_event"
    /\ cur["t1"].chain = <<1>> /\ cur["t1"].i = 2
    /\ cur["t1"].fields = [k \in {"x"} |-> JNumber("0")]
    /\ ENABLED on_event_write("t1", TRUE)

====
